---- MODULE Spec2Model ----
(***************************************************************************)
(* A model of crisp, a small Lisp: the reader (tokenize, parse), the       *)
(* special forms (if, let, \, fn, exit), the evaluator and the list        *)
(* natives that call back into it.                                         *)
(*                                                                         *)
(* A character is a one-element string; a token and a text are sequences   *)
(* of characters.  A CrispExpr is a record tagged by t.                    *)
(***************************************************************************)
EXTENDS Integers, Sequences, FiniteSets, TLC

\* ------------------------------------------------------------------------
\* Bounds
\* ------------------------------------------------------------------------
MaxInputLen == 4
MaxNum == 2
MaxListLen == 3

\* ------------------------------------------------------------------------
\* Characters
\* ------------------------------------------------------------------------
LParen == "("
RParen == ")"
Comma == ","
Semi == ";"
DQuote == "dq"
SQuote == "sq"
Backslash == "bs"
Space == "sp"
Newline == "nl"
Tab == "tab"

Alphabet == {LParen, RParen, Comma, Semi, DQuote, SQuote, Backslash,
             Space, Newline, "a", "1"}

Texts == UNION {[1..n -> Alphabet] : n \in 0..MaxInputLen}

Last(s) == s[Len(s)]

\* ------------------------------------------------------------------------
\* CrispExpr and CrispError constructors
\* ------------------------------------------------------------------------
Symbol(s) == [t |-> "Symbol", v |-> s]
CrispString(s) == [t |-> "CrispString", v |-> s]
Number(n) == [t |-> "Number", v |-> n]
Bool(b) == [t |-> "Bool", v |-> b]
Char(c) == [t |-> "Char", v |-> c]
Nil == [t |-> "Nil"]
List(l) == [t |-> "List", v |-> l]
Func(name) == [t |-> "Func", v |-> name]
Lambda(a, f) == [t |-> "Lambda", args |-> a, func |-> f]

ArgumentError(min, max) == [e |-> "ArgumentError", min |-> min, max |-> max]
ParseError(msg) == [e |-> "ParseError", msg |-> msg]
StandardError(msg) == [e |-> "StandardError", msg |-> msg]
TypeError(expected) == [e |-> "TypeError", expected |-> expected]
Reason(msg) == [e |-> "Reason", msg |-> msg]

\* ------------------------------------------------------------------------
\* State
\* ------------------------------------------------------------------------
VARIABLES
    input,          \* tokenize: the text being scanned
    pos,            \* tokenize: number of characters consumed by the for loop
    tokens,         \* tokenize: Vec<String> of finished tokens
    current_token,  \* tokenize: the token in progress
    state,          \* tokenize: TokenState
    phase,          \* "scan" -> "tokenized" -> "parsed"
    parsed,         \* outcome of parse(&tokens)
    repl_env,       \* the CrispEnv the program runs in (repl.rs: env)
    exited,         \* the process has terminated (exit or abort)
    last            \* the last call made on env: its arguments and outcome

rvars == <<input, pos, tokens, current_token, state, phase, parsed>>
evars == <<repl_env, exited, last>>
vars == <<rvars, evars>>

\* ------------------------------------------------------------------------
\* tokenize, one loop iteration per step
\* ------------------------------------------------------------------------
\* a push without the `is_empty` test
Flushed_always(toks, cur) == Append(toks, cur)

\* `if !current_token.is_empty() { tokens.push(..); current_token.clear() }`
Flushed(toks, cur) == IF cur # <<>> THEN Append(toks, cur) ELSE toks

ScanStep(ch, toks, cur) ==
    CASE ch = Comma ->
            [tokens |-> toks, current_token |-> Append(cur, ch), state |-> "Char"]
      [] ch = Semi ->
            [tokens |-> Flushed(toks, cur), current_token |-> <<>>, state |-> "Comment"]
      [] ch \in {DQuote, SQuote} ->
            [tokens |-> toks, current_token |-> Append(cur, ch), state |-> "String"]
      [] ch \in {Space, Newline, Tab} ->
            [tokens |-> Flushed(toks, cur), current_token |-> <<>>, state |-> "Scanning"]
      [] ch \in {LParen, RParen} ->
            [tokens |-> Append(Flushed(toks, cur), <<ch>>), current_token |-> <<>>,
             state |-> "Scanning"]
      [] OTHER ->
            [tokens |-> toks, current_token |-> Append(cur, ch), state |-> "Scanning"]

CharStep(ch, toks, cur) ==
    [tokens |-> Append(toks, Append(cur, ch)), current_token |-> <<>>,
     state |-> "Scanning"]

\* a comment that also ends at a space
CommentStep_to_space(ch, toks, cur) ==
    [tokens |-> toks, current_token |-> cur,
     state |-> IF ch \in {Newline, Space} THEN "Scanning" ELSE "Comment"]

CommentStep(ch, toks, cur) ==
    [tokens |-> toks, current_token |-> cur,
     state |-> IF ch = Newline THEN "Scanning" ELSE "Comment"]

\* `current_token.chars().last().unwrap()` aborts on an empty token
StringStep(ch, toks, cur) ==
    IF cur = <<>>
    THEN [tokens |-> toks, current_token |-> cur, state |-> "Panic"]
    ELSE IF ch \in {DQuote, SQuote} /\ Last(cur) # Backslash
         THEN [tokens |-> Append(toks, Append(cur, ch)), current_token |-> <<>>,
               state |-> "Scanning"]
         ELSE [tokens |-> toks, current_token |-> Append(cur, ch), state |-> "String"]

TokenStep(st, ch, toks, cur) ==
    CASE st = "Scanning" -> ScanStep(ch, toks, cur)
      [] st = "Char" -> CharStep(ch, toks, cur)
      [] st = "Comment" -> CommentStep(ch, toks, cur)
      [] st = "String" -> StringStep(ch, toks, cur)

\* outer parens added whenever the first token is not `(`
Wrapped_always(toks) ==
    IF toks = <<>> \/ toks[1] # <<LParen>>
    THEN <<(<<LParen>>)>> \o toks \o <<(<<RParen>>)>>
    ELSE toks

\* the code after the loop: dangling token, then the optional outer parens
Wrapped(toks) ==
    IF Len(toks) > 1 /\ toks[1] # <<LParen>>
    THEN <<(<<LParen>>)>> \o toks \o <<(<<RParen>>)>>
    ELSE toks

TokenizeEnd(toks, cur) == Wrapped(Flushed(toks, cur))

RECURSIVE TokenizeFrom(_, _, _, _, _)
TokenizeFrom(text, i, st, toks, cur) ==
    IF st = "Panic" THEN [panic |-> TRUE, tokens |-> toks]
    ELSE IF i > Len(text) THEN [panic |-> FALSE, tokens |-> TokenizeEnd(toks, cur)]
    ELSE LET r == TokenStep(st, text[i], toks, cur)
         IN TokenizeFrom(text, i + 1, r.state, r.tokens, r.current_token)

tokenize(text) == TokenizeFrom(text, 1, "Scanning", <<>>, <<>>)

\* ------------------------------------------------------------------------
\* parse
\* ------------------------------------------------------------------------
Ok(expr, rest) == [kind |-> "Ok", expr |-> expr, rest |-> rest]
Err(error) == [kind |-> "Err", err |-> error]
Panic == [kind |-> "Panic"]

Digits == {"0", "1", "2", "3", "4", "5", "6", "7", "8", "9"}
DigitVal(c) ==
    CASE c = "0" -> 0 [] c = "1" -> 1 [] c = "2" -> 2 [] c = "3" -> 3
      [] c = "4" -> 4 [] c = "5" -> 5 [] c = "6" -> 6 [] c = "7" -> 7
      [] c = "8" -> 8 [] c = "9" -> 9

\* `token.parse::<f64>()`, for the decimal integers the alphabet can spell
IsNumberToken(token) ==
    /\ token # <<>>
    /\ \A i \in 1..Len(token) : token[i] \in Digits

RECURSIVE NumberValue(_)
NumberValue(token) ==
    IF token = <<>> THEN 0
    ELSE 10 * NumberValue(SubSeq(token, 1, Len(token) - 1)) + DigitVal(Last(token))

\* snailquote's unescape: a shell-like scan; inside '...' nothing is an
\* escape, inside "..." a backslash must be followed by a known escape.
EscapeOf(c) ==
    CASE c = "a" -> "bel"
      [] c = "n" -> Newline
      [] c = "t" -> Tab
      [] c = Backslash -> Backslash
      [] c = SQuote -> SQuote
      [] c = DQuote -> DQuote
      [] c = Space -> Space
      [] OTHER -> "invalid"

RECURSIVE UnescapeFrom(_, _, _, _)
UnescapeFrom(s, i, mode, res) ==
    IF i > Len(s) THEN [ok |-> TRUE, v |-> res]
    ELSE LET c == s[i] IN
      CASE mode = "single" ->
              IF c = SQuote THEN UnescapeFrom(s, i + 1, "none", res)
              ELSE UnescapeFrom(s, i + 1, mode, Append(res, c))
        [] mode = "double" ->
              IF c = DQuote THEN UnescapeFrom(s, i + 1, "none", res)
              ELSE IF c = Backslash
                   THEN IF i + 1 > Len(s) \/ EscapeOf(s[i + 1]) = "invalid"
                        THEN [ok |-> FALSE, v |-> <<>>]
                        ELSE UnescapeFrom(s, i + 2, mode, Append(res, EscapeOf(s[i + 1])))
                   ELSE UnescapeFrom(s, i + 1, mode, Append(res, c))
        [] OTHER ->
              IF c = SQuote THEN UnescapeFrom(s, i + 1, "single", res)
              ELSE IF c = DQuote THEN UnescapeFrom(s, i + 1, "double", res)
              ELSE UnescapeFrom(s, i + 1, mode, Append(res, c))

unescape(token) == UnescapeFrom(token, 1, "none", <<>>)

\* `token.chars().next().unwrap()` aborts on an empty token and
\* `token.chars().nth(1).unwrap()` aborts on a char marker with nothing after it
parse_atom(token) ==
    CASE token = <<"t", "r", "u", "e">> -> Ok(Bool(TRUE), <<>>)
      [] token = <<"f", "a", "l", "s", "e">> -> Ok(Bool(FALSE), <<>>)
      [] token = <<"n", "i", "l">> -> Ok(Nil, <<>>)
      [] OTHER ->
            IF token = <<>> THEN Panic
            ELSE IF token[1] = Comma
                 THEN IF Len(token) < 2 THEN Panic ELSE Ok(Char(token[2]), <<>>)
            ELSE IF token[1] \in {DQuote, SQuote}
                 THEN IF unescape(token).ok
                      THEN Ok(CrispString(unescape(token).v), <<>>)
                      ELSE Err(ParseError("Invalid string."))
            ELSE IF IsNumberToken(token) THEN Ok(Number(NumberValue(token)), <<>>)
            ELSE Ok(Symbol(token), <<>>)

RECURSIVE parse(_), parse_seq_loop(_, _)
\* a parse that takes a leading `)` for an empty value
parse_close_as_nil(toks) ==
    IF toks = <<>> THEN Ok(Nil, <<>>)
    ELSE LET head == toks[1]
             tail == Tail(toks)
         IN CASE head = <<LParen>> -> parse_seq_loop(<<>>, tail)
              [] head = <<RParen>> -> Ok(Nil, tail)
              [] OTHER ->
                    LET a == parse_atom(head)
                    IN IF a.kind = "Ok" THEN Ok(a.expr, tail) ELSE a

parse(toks) ==
    IF toks = <<>> THEN Ok(Nil, <<>>)
    ELSE LET head == toks[1]
             tail == Tail(toks)
         IN CASE head = <<LParen>> -> parse_seq_loop(<<>>, tail)
              [] head = <<RParen>> -> Err(ParseError("Unexpected )."))
              [] OTHER ->
                    LET a == parse_atom(head)
                    IN IF a.kind = "Ok" THEN Ok(a.expr, tail) ELSE a

\* a loop that leaves the closing `)` in the remainder
parse_seq_loop_keep_close(res, toks) ==
    IF toks = <<>> THEN Err(ParseError("Could not find closing )."))
    ELSE IF toks[1] = <<RParen>> THEN Ok(List(res), toks)
    ELSE LET r == parse(toks)
         IN IF r.kind = "Ok" THEN parse_seq_loop(Append(res, r.expr), r.rest) ELSE r

\* the loop of parse_seq: res is the Vec collected so far
parse_seq_loop(res, toks) ==
    IF toks = <<>> THEN Err(ParseError("Could not find closing )."))
    ELSE IF toks[1] = <<RParen>> THEN Ok(List(res), Tail(toks))
    ELSE LET r == parse(toks)
         IN IF r.kind = "Ok" THEN parse_seq_loop(Append(res, r.expr), r.rest) ELSE r

parse_seq(token_slice) == parse_seq_loop(<<>>, token_slice)

\* ------------------------------------------------------------------------
\* CrispEnv: a scope is the `data` map (a function from the bound names to
\* their values); an environment is the chain of scopes from the root
\* (first) to the current scope (last).
\* ------------------------------------------------------------------------
Current(env) == env[Len(env)]

\* a binding that lands in the root scope instead of the current one
bind_root(name, value, env) ==
    [env EXCEPT ![1] = (name :> value) @@ env[1]]

\* `env.data.insert(name, value)`: the current scope only
bind(name, value, env) ==
    [env EXCEPT ![Len(env)] = (name :> value) @@ env[Len(env)]]

\* look up in the current scope; on a miss, go to the parent
RECURSIVE get_from(_, _, _)
get_from(name, env, i) ==
    IF i = 0 THEN [found |-> FALSE]
    ELSE IF name \in DOMAIN env[i] THEN [found |-> TRUE, v |-> env[i][name]]
    ELSE get_from(name, env, i - 1)

\* a lookup that prefers the root scope to the nearer ones
get_root_first(name, env) ==
    IF name \in DOMAIN env[1] THEN [found |-> TRUE, v |-> env[1][name]]
    ELSE get_from(name, env, Len(env))

\* the lookup starts at the current scope
get(name, env) == get_from(name, env, Len(env))

\* the builtins registered at startup
Natives == {"+", "-", "*", "=", ">", "<", ">=", "<="}

initialize_environment == << [n \in Natives |-> Func(n)] >>

\* ------------------------------------------------------------------------
\* Results of an evaluation: Ok(value), Err(error), the process exited with
\* a code, or the process aborted.  Every result carries the environment
\* the evaluation left and the log of the evaluator calls it made.
\* ------------------------------------------------------------------------
ROk(v, env, log) == [kind |-> "Ok", val |-> v, env |-> env, log |-> log]
RErr(e, env, log) == [kind |-> "Err", val |-> e, env |-> env, log |-> log]
RExit(code, env, log) == [kind |-> "Exit", val |-> Number(code), env |-> env, log |-> log]
RPanic(env, log) == [kind |-> "Panic", val |-> Nil, env |-> env, log |-> log]

Evaluated(expr) == [op |-> "eval", x |-> expr]
Called(f) == [op |-> "call", x |-> f]

\* r happened after the calls in log
After(log, r) == [r EXCEPT !.log = log \o r.log]

\* ------------------------------------------------------------------------
\* Natives of the initial environment
\* ------------------------------------------------------------------------
IsNumbers(list) == \A i \in 1..Len(list) : list[i].t = "Number"

RECURSIVE FoldNumbers(_, _, _)
FoldNumbers(name, acc, rest) ==
    IF rest = <<>> THEN acc
    ELSE FoldNumbers(name,
                     CASE name = "+" -> acc + rest[1].v
                       [] name = "-" -> acc - rest[1].v
                       [] name = "*" -> acc * rest[1].v,
                     Tail(rest))

list_foldl(name, list, env) ==
    IF ~IsNumbers(list) THEN RErr(Reason("Expected a number."), env, <<>>)
    ELSE IF list = <<>> THEN RErr(Reason("Expected 1+ arguments."), env, <<>>)
    ELSE ROk(Number(FoldNumbers(name, list[1].v, Tail(list))), env, <<>>)

Compare(name, a, b) ==
    CASE name = "=" -> a = b
      [] name = ">" -> a > b
      [] name = "<" -> a < b
      [] name = ">=" -> a >= b
      [] name = "<=" -> a <= b

bool_compare(name, list, env) ==
    IF ~IsNumbers(list) THEN RErr(Reason("Expected a number."), env, <<>>)
    ELSE IF list = <<>> THEN RErr(Reason("Expected 1+ arguments."), env, <<>>)
    ELSE ROk(Bool(\A i \in 1..(Len(list) - 1) : Compare(name, list[i].v, list[i + 1].v)),
             env, <<>>)

call_native(name, list, env) ==
    IF name \in {"+", "-", "*"} THEN list_foldl(name, list, env)
    ELSE bool_compare(name, list, env)

\* ------------------------------------------------------------------------
\* The special forms and the evaluator
\* ------------------------------------------------------------------------
Keywords == {"if", "let", "\\", "fn", "exit"}

IsKeyword(expr) == expr.t = "Symbol" /\ expr.v \in Keywords

\* check_argument_error!(args, min, max)
ArityOk(args, min, max) == Len(args) >= min /\ Len(args) <= max

RECURSIVE eval(_, _), eval_list(_, _), eval_args(_, _, _, _), eval_if(_, _),
          eval_let(_, _), eval_keyword(_, _, _)

\* a lookup that sees the current scope only
eval_symbol_local(key, env) ==
    IF key \in DOMAIN Current(env)
    THEN ROk(Current(env)[key], env, <<>>)
    ELSE RErr(Reason("Unexpected symbol"), env, <<>>)

\* `env.data.get(key)`; in a call scope the lookup goes on to the parent
eval_symbol(key, env) ==
    IF get(key, env).found
    THEN ROk(get(key, env).v, env, <<>>)
    ELSE RErr(Reason("Unexpected symbol"), env, <<>>)

\* a constructor that evaluates the body when the Lambda is built
eval_keyword_lambda_eager(args, env) ==
    IF ~ArityOk(args, 2, 2) THEN RErr(ArgumentError(2, 2), env, <<>>)
    ELSE IF args[1].t \notin {"List", "Symbol"}
    THEN RErr(TypeError("Symbol || List<Symbol>"), env, <<>>)
    ELSE LET b == eval(args[2], env)
         IN IF b.kind # "Ok" THEN b
            ELSE ROk(Lambda(IF args[1].t = "List" THEN args[1] ELSE List(<<args[1]>>),
                            args[2]), b.env, b.log)

\* a constructor that keeps a bare Symbol as the params
eval_keyword_lambda_bare(args, env) ==
    IF ~ArityOk(args, 2, 2) THEN RErr(ArgumentError(2, 2), env, <<>>)
    ELSE IF args[1].t \in {"List", "Symbol"}
         THEN ROk(Lambda(args[1], args[2]), env, <<>>)
         ELSE RErr(TypeError("Symbol || List<Symbol>"), env, <<>>)

eval_keyword_lambda(args, env) ==
    IF ~ArityOk(args, 2, 2) THEN RErr(ArgumentError(2, 2), env, <<>>)
    ELSE CASE args[1].t = "List" -> ROk(Lambda(args[1], args[2]), env, <<>>)
           [] args[1].t = "Symbol" -> ROk(Lambda(List(<<args[1]>>), args[2]), env, <<>>)
           [] OTHER -> RErr(TypeError("Symbol || List<Symbol>"), env, <<>>)

\* a fn that returns the Lambda without binding the name
eval_fn_unbound(args, env) ==
    IF ~ArityOk(args, 3, 3) THEN RErr(ArgumentError(3, 3), env, <<>>)
    ELSE IF args[1].t # "Symbol" THEN RErr(TypeError("Symbol"), env, <<>>)
    ELSE eval_keyword_lambda(Tail(args), env)

eval_fn(args, env) ==
    IF ~ArityOk(args, 3, 3) THEN RErr(ArgumentError(3, 3), env, <<>>)
    ELSE IF args[1].t # "Symbol" THEN RErr(TypeError("Symbol"), env, <<>>)
    ELSE LET lambda == eval_keyword_lambda(Tail(args), env)
         IN IF lambda.kind # "Ok" THEN lambda
            ELSE ROk(lambda.val, bind(args[1].v, lambda.val, env), <<>>)

\* the code is taken from a Number literal, anything else counts as 0;
\* numbers are integers here, so `round` changes nothing
eval_exit(args, env) ==
    IF ~ArityOk(args, 0, 1) THEN RErr(ArgumentError(0, 1), env, <<>>)
    ELSE IF args # <<>> /\ args[1].t = "Number" THEN RExit(args[1].v, env, <<>>)
    ELSE RExit(0, env, <<>>)

\* an `if` that evaluates both branches and then selects
eval_if_both(args, env) ==
    IF ~ArityOk(args, 3, 3) THEN RErr(ArgumentError(3, 3), env, <<>>)
    ELSE LET p == eval(args[1], env)
         IN IF p.kind # "Ok" THEN p
            ELSE IF p.val.t # "Bool" THEN RErr(TypeError("Bool"), p.env, p.log)
            ELSE LET a == eval(args[2], p.env)
                 IN IF a.kind # "Ok" THEN After(p.log, a)
                    ELSE LET b == eval(args[3], a.env)
                         IN IF b.kind # "Ok" THEN After(p.log \o a.log, b)
                            ELSE ROk(IF p.val.v THEN a.val ELSE b.val, b.env,
                                     p.log \o a.log \o b.log)

eval_if(args, env) ==
    IF ~ArityOk(args, 3, 3) THEN RErr(ArgumentError(3, 3), env, <<>>)
    ELSE LET p == eval(args[1], env)
         IN IF p.kind # "Ok" THEN p
            ELSE IF p.val.t = "Bool"
                 THEN After(p.log, eval(args[IF p.val.v THEN 2 ELSE 3], p.env))
                 ELSE RErr(TypeError("Bool"), p.env, p.log)

\* a let that keeps an earlier binding of the name
eval_let_keep(args, env) ==
    IF ~ArityOk(args, 2, 2) THEN RErr(ArgumentError(2, 2), env, <<>>)
    ELSE IF args[1].t # "Symbol" THEN RErr(TypeError("Symbol"), env, <<>>)
    ELSE LET value == eval(args[2], env)
         IN IF value.kind # "Ok" THEN value
            ELSE IF get(args[1].v, value.env).found
                 THEN ROk(value.val, value.env, value.log)
                 ELSE ROk(value.val, bind(args[1].v, value.val, value.env), value.log)

\* a let that evaluates the value before it checks the count and the name
eval_let_unchecked(args, env) ==
    IF Len(args) < 2 THEN RErr(ArgumentError(2, 2), env, <<>>)
    ELSE LET value == eval(args[2], env)
         IN IF value.kind # "Ok" THEN value
            ELSE IF ~ArityOk(args, 2, 2)
                 THEN RErr(ArgumentError(2, 2), value.env, value.log)
            ELSE IF args[1].t # "Symbol"
                 THEN RErr(TypeError("Symbol"), value.env, value.log)
            ELSE ROk(value.val, bind(args[1].v, value.val, value.env), value.log)

eval_let(args, env) ==
    IF ~ArityOk(args, 2, 2) THEN RErr(ArgumentError(2, 2), env, <<>>)
    ELSE IF args[1].t # "Symbol" THEN RErr(TypeError("Symbol"), env, <<>>)
    ELSE LET value == eval(args[2], env)
         IN IF value.kind # "Ok" THEN value
            ELSE ROk(value.val, bind(args[1].v, value.val, value.env), value.log)

eval_keyword(expr, args, env) ==
    CASE expr.v = "if" -> eval_if(args, env)
      [] expr.v = "let" -> eval_let(args, env)
      [] expr.v = "\\" -> eval_keyword_lambda(args, env)
      [] expr.v = "fn" -> eval_fn(args, env)
      [] expr.v = "exit" -> eval_exit(args, env)

\* `args.iter().map(|a| eval(a, env)).collect()`: left to right, stopping at
\* the first argument that does not return Ok
\* a collect that goes on to the later arguments after an error
eval_args_all(args, env, log, acc) ==
    IF args = <<>> THEN ROk(List(acc), env, log)
    ELSE LET a == eval(args[1], env)
         IN IF a.kind \in {"Exit", "Panic"} THEN After(log, a)
            ELSE IF a.kind = "Err"
                 THEN LET rest == eval_args(Tail(args), a.env, log \o a.log, acc)
                      IN IF rest.kind \in {"Exit", "Panic"} THEN rest
                         ELSE RErr(a.val, rest.env, rest.log)
            ELSE eval_args(Tail(args), a.env, log \o a.log, Append(acc, a.val))

eval_args(args, env, log, acc) ==
    IF args = <<>> THEN ROk(List(acc), env, log)
    ELSE LET a == eval(args[1], env)
         IN IF a.kind # "Ok" THEN After(log, a)
            ELSE eval_args(Tail(args), a.env, log \o a.log, Append(acc, a.val))

\* a dispatch that lets a binding of the head shadow the special form
eval_list_shadowable(list, env) ==
    IF list = <<>> THEN RErr(Reason("Received an empty list."), env, <<>>)
    ELSE IF IsKeyword(list[1]) /\ ~get(list[1].v, env).found
    THEN eval_keyword(list[1], Tail(list), env)
    ELSE LET first_eval == eval(list[1], env)
         IN IF first_eval.kind # "Ok" THEN first_eval
            ELSE IF first_eval.val.t = "Func"
                 THEN LET args_eval == eval_args(Tail(list), first_eval.env,
                                                 first_eval.log, <<>>)
                      IN IF args_eval.kind # "Ok" THEN args_eval
                         ELSE After(Append(args_eval.log, Called(first_eval.val)),
                                    call_native(first_eval.val.v, args_eval.val.v,
                                                args_eval.env))
                 ELSE RErr(Reason("List must begin with a function."),
                           first_eval.env, first_eval.log)

eval_list(list, env) ==
    IF list = <<>> THEN RErr(Reason("Received an empty list."), env, <<>>)
    ELSE IF IsKeyword(list[1]) THEN eval_keyword(list[1], Tail(list), env)
    ELSE LET first_eval == eval(list[1], env)
         IN IF first_eval.kind # "Ok" THEN first_eval
            ELSE IF first_eval.val.t = "Func"
                 THEN LET args_eval == eval_args(Tail(list), first_eval.env,
                                                 first_eval.log, <<>>)
                      IN IF args_eval.kind # "Ok" THEN args_eval
                         ELSE After(Append(args_eval.log, Called(first_eval.val)),
                                    call_native(first_eval.val.v, args_eval.val.v,
                                                args_eval.env))
                 ELSE RErr(Reason("List must begin with a function."),
                           first_eval.env, first_eval.log)

\* eval.rs has arms for Symbol, Number, Bool, List and Func only
eval(expr, env) ==
    After(<<Evaluated(expr)>>,
          CASE expr.t = "Symbol" -> eval_symbol(expr.v, env)
            [] expr.t \in {"Number", "Bool"} -> ROk(expr, env, <<>>)
            [] expr.t = "List" -> eval_list(expr.v, env)
            [] expr.t = "Func" ->
                  RErr(Reason("Found unexpected function in list."), env, <<>>))

\* ------------------------------------------------------------------------
\* Invoking a Lambda
\* ------------------------------------------------------------------------
\* the scope of a call: each parameter name bound to its argument
RECURSIVE call_scope(_, _)
call_scope(params, args) ==
    IF params = <<>> THEN <<>>
    ELSE (Last(params).v :> Last(args))
         @@ call_scope(SubSeq(params, 1, Len(params) - 1),
                       SubSeq(args, 1, Len(args) - 1))

\* the call scope is a new scope whose parent is the caller's environment
new_child_for_call(params, args, env) == Append(env, call_scope(params, args))

\* The counts must match exactly; the body is evaluated in the call scope,
\* which is dropped when the call returns.  A parameter that is not a Symbol
\* is an error of the call (test_lambda_list_err).
eval_lambda(lambda, args, env) ==
    LET params == lambda.args.v
    IN IF Len(params) # Len(args)
       THEN RErr(ArgumentError(Len(params), Len(params)), env, <<>>)
       ELSE IF \E i \in 1..Len(params) : params[i].t # "Symbol"
       THEN RErr(TypeError("Symbol"), env, <<>>)
       ELSE LET r == eval(lambda.func, new_child_for_call(params, args, env))
            IN [r EXCEPT !.env = SubSeq(r.env, 1, Len(env))]

RECURSIVE chunks(_, _)

\* chunks that leave out a last chunk shorter than n
chunks_exact(list, n) ==
    IF Len(list) < n THEN <<>>
    ELSE <<SubSeq(list, 1, n)>> \o chunks(SubSeq(list, n + 1, Len(list)), n)

\* `list.chunks(n_args)`, for n_args > 0
chunks(list, n) ==
    IF list = <<>> THEN <<>>
    ELSE IF Len(list) <= n THEN <<list>>
    ELSE <<SubSeq(list, 1, n)>> \o chunks(SubSeq(list, n + 1, Len(list)), n)

\* the for loop of crisp_map: stops at the first call that does not return Ok
RECURSIVE map_loop(_, _, _, _, _)
map_loop(lambda, cs, env, log, result) ==
    IF cs = <<>> THEN ROk(List(result), env, log)
    ELSE LET r == eval_lambda(lambda, cs[1], env)
         IN IF r.kind # "Ok" THEN After(log, r)
            ELSE map_loop(lambda, Tail(cs), r.env, log \o r.log, Append(result, r.val))

\* `chunks` aborts the process when the chunk size is 0
crisp_map(args, env) ==
    IF ~ArityOk(args, 2, 2) THEN RErr(ArgumentError(2, 2), env, <<>>)
    ELSE IF args[1].t # "Lambda" THEN RErr(TypeError("Lambda"), env, <<>>)
    ELSE IF args[1].args.t # "List" THEN RErr(TypeError("Symbol || List<Symbol>"), env, <<>>)
    ELSE IF args[2].t # "List" THEN RErr(TypeError("List"), env, <<>>)
    ELSE IF Len(args[1].args.v) = 0 THEN RPanic(env, <<>>)
    ELSE map_loop(args[1], chunks(args[2].v, Len(args[1].args.v)), env, <<>>, <<>>)

RECURSIVE foldl_loop(_, _, _, _, _)
foldl_loop(lambda, list, env, log, acc) ==
    IF list = <<>> THEN ROk(acc, env, log)
    ELSE LET r == eval_lambda(lambda, <<acc, list[1]>>, env)
         IN IF r.kind # "Ok" THEN After(log, r)
            ELSE foldl_loop(lambda, Tail(list), r.env, log \o r.log, r.val)

crisp_foldl(args, env) ==
    IF ~ArityOk(args, 3, 3) THEN RErr(ArgumentError(3, 3), env, <<>>)
    ELSE IF args[1].t # "Lambda" THEN RErr(TypeError("Lambda"), env, <<>>)
    ELSE IF args[1].args.t = "List" /\ Len(args[1].args.v) # 2
         THEN RErr(StandardError("Lambda for foldl/foldl1 should take 2 arguments."),
                   env, <<>>)
    ELSE IF args[3].t # "List" THEN RErr(TypeError("List"), env, <<>>)
    ELSE foldl_loop(args[1], args[3].v, env, <<>>, args[2])

\* ------------------------------------------------------------------------
\* The reader as a state machine: scan the text, finish, parse
\* ------------------------------------------------------------------------
NoParse == [kind |-> "None"]
NoCall == [op |-> "none"]

ReaderInit ==
    /\ input \in Texts
    /\ pos = 0
    /\ tokens = <<>>
    /\ current_token = <<>>
    /\ state = "Scanning"
    /\ phase = "scan"
    /\ parsed = NoParse
    /\ repl_env = initialize_environment
    /\ exited = FALSE
    /\ last = NoCall

Step(st) ==
    /\ phase = "scan"
    /\ pos < Len(input)
    /\ state = st
    /\ LET r == TokenStep(st, input[pos + 1], tokens, current_token)
       IN /\ tokens' = r.tokens
          /\ current_token' = r.current_token
          /\ state' = r.state
          /\ phase' = IF r.state = "Panic" THEN "aborted" ELSE "scan"
    /\ pos' = pos + 1
    /\ UNCHANGED <<input, parsed, evars>>

StepScanning == Step("Scanning")
StepChar == Step("Char")
StepComment == Step("Comment")
StepString == Step("String")

EndOfInput ==
    /\ phase = "scan"
    /\ pos = Len(input)
    /\ tokens' = TokenizeEnd(tokens, current_token)
    /\ phase' = "tokenized"
    /\ UNCHANGED <<input, pos, current_token, state, parsed, evars>>

Parse ==
    /\ phase = "tokenized"
    /\ parsed' = parse(tokens)
    /\ phase' = IF parse(tokens).kind = "Panic" THEN "aborted" ELSE "parsed"
    /\ UNCHANGED <<input, pos, tokens, current_token, state, evars>>

ReaderNext ==
    \/ StepScanning
    \/ StepChar
    \/ StepComment
    \/ StepString
    \/ EndOfInput
    \/ Parse

ReaderSpec == ReaderInit /\ [][ReaderNext]_vars

\* ------------------------------------------------------------------------
\* The evaluator as a state machine: a sequence of calls of eval, crisp_map
\* and crisp_foldl on one environment, as the REPL and the unit tests make.
\* ------------------------------------------------------------------------
S(name) == Symbol(name)
L(seq) == List(seq)

Nums == {Number(n) : n \in 1..MaxNum}
Bools == {Bool(TRUE), Bool(FALSE)}

Lets == {L(<<S("let"), S("x"), n>>) : n \in Nums}
        \cup {L(<<S("let"), S("y"), Number(1)>>), L(<<S("let"), S("y"), S("z")>>),
              L(<<S("let"), Number(3), Number(1)>>), L(<<S("let"), S("x")>>),
              L(<<S("let"), S("if"), Number(1)>>), L(<<S("let"), S("exit"), Number(2)>>),
              L(<<S("let"), S("x"),
                  L(<<S("+"), L(<<S("let"), S("x"), Number(2)>>), S("z")>>)>>)}
Exits == {L(<<S("exit")>>), L(<<S("exit"), Number(1)>>), L(<<S("exit"), S("x")>>),
          L(<<S("exit"), Bool(TRUE)>>), L(<<S("exit"), Number(1), Number(2)>>)}
Calls == {L(<<S("+"), S("x"), Number(1)>>), L(<<S("="), S("x"), Number(1)>>),
          L(<<S(">"), Number(2), S("y")>>)}

Preds == Bools \cup {S("x"), L(<<S("="), S("x"), Number(1)>>),
                     L(<<S("let"), S("y"), Number(1)>>), L(<<S("exit"), Number(2)>>)}
Branches == {Number(1), S("x"), L(<<S("let"), S("x"), Number(2)>>),
             L(<<S("exit"), Number(1)>>)}
IfForms == {L(<<S("if"), p, a, b>>) : p \in Preds, a \in Branches, b \in Branches}
           \cup {L(<<S("if"), Bool(TRUE), L(<<S("exit"), Number(1)>>)>>),
                 L(<<S("if")>>)}

ParamForms == {S("a"), L(<<S("a")>>), L(<<S("a"), S("b")>>), L(<<>>),
               L(<<Number(3), S("b")>>), Number(3)}
LambdaForms == {L(<<S("\\"), ps, b>>) :
                    ps \in ParamForms,
                    b \in {S("a"), L(<<S("exit"), Number(1)>>),
                           L(<<S("let"), S("x"), Number(1)>>)}}
               \cup {L(<<S("\\"), S("a")>>)}
FnForms == {L(<<S("fn"), S("f"), ps, L(<<S("+"), S("a"), S("y")>>)>>) :
                ps \in {S("a"), L(<<S("a"), S("b")>>), L(<<Number(3), S("b")>>)}}
           \cup {L(<<S("fn"), Number(3), S("a"), S("a")>>),
                 L(<<S("fn"), S("f"), Number(3), S("a")>>),
                 L(<<S("fn"), S("f"), S("a")>>)}

DataLists == {L(<<>>), L(<<Number(1), Number(2), Number(3)>>),
              L(<<Number(1), Number(2), L(<<S("+"), Number(1), Number(2)>>)>>),
              L(<<S("x"), Number(1)>>), L(<<S("f"), Number(1)>>),
              L(<<Bool(TRUE), L(<<S("let"), S("x"), Number(2)>>)>>),
              L(<<L(<<S("\\"), S("a"), S("a")>>), Number(1)>>)}
NativeCalls == {L(<<S("+"), a, b>>) :
                    a \in {Number(1), S("y"), L(<<S("exit"), Number(1)>>)},
                    b \in {Number(2), L(<<S("let"), S("x"), Number(2)>>)}}
               \cup {L(<<S("+"), Number(1)>>)}

Programs == Nums \cup Bools \cup {S("x"), S("y"), S("f"), S("+"), Func("+")}
            \cup Lets \cup Exits \cup Calls \cup IfForms \cup LambdaForms
            \cup FnForms \cup DataLists \cup NativeCalls

\* the arguments of a direct call of crisp_map / crisp_foldl
NumLists == {[i \in 1..n |-> Number(i)] : n \in 0..MaxListLen}
LambdaBodies == {S("a"), S("y"), L(<<S("+"), S("a"), S("y")>>),
                 L(<<S("let"), S("x"), S("a")>>), L(<<S("fn"), S("y"), S("b"), S("a")>>),
                 L(<<S("exit"), Number(1)>>), L(<<S("\\"), S("b"), S("a")>>)}
LambdaValues == {Lambda(L(ps), b) :
                     ps \in {<<S("a")>>, <<S("a"), S("b")>>, <<>>, <<Number(3), S("b")>>},
                     b \in LambdaBodies}
                \cup {Lambda(L(<<S("b")>>), S("a")), Lambda(L(<<S("y")>>), S("y")),
                      Lambda(L(<<S("a"), S("b")>>), S("b"))}
FoldLambdas == {Lambda(L(<<S("a"), S("b")>>), b) :
                    b \in {L(<<S("+"), S("a"), S("b")>>), L(<<S("let"), S("x"), S("b")>>),
                           L(<<S("exit"), Number(1)>>)}}
               \cup {Lambda(L(<<S("a")>>), S("a")), Lambda(L(<<S("a"), S("b")>>), S("y"))}
BoundLambdas(e) == {Current(e)[n] : n \in {m \in DOMAIN Current(e) : Current(e)[m].t = "Lambda"}}

EvalInit ==
    /\ repl_env = initialize_environment
    /\ exited = FALSE
    /\ last = NoCall
    /\ input = <<>>
    /\ pos = 0
    /\ tokens = <<>>
    /\ current_token = <<>>
    /\ state = "Scanning"
    /\ phase = "scan"
    /\ parsed = NoParse

Outcome(op, arg, r) ==
    /\ repl_env' = r.env
    /\ exited' = (r.kind \in {"Exit", "Panic"})
    /\ last' = [op |-> op, arg |-> arg, before |-> repl_env,
                kind |-> r.kind, val |-> r.val, log |-> r.log]
    /\ UNCHANGED rvars

Eval ==
    /\ ~exited
    /\ \E expr \in Programs : Outcome("eval", expr, eval(expr, repl_env))

Map ==
    /\ ~exited
    /\ \E f \in LambdaValues \cup BoundLambdas(repl_env), xs \in NumLists :
           Outcome("map", <<f, L(xs)>>, crisp_map(<<f, L(xs)>>, repl_env))

Foldl ==
    /\ ~exited
    /\ \E f \in FoldLambdas, xs \in NumLists :
           Outcome("foldl", <<f, Number(1), L(xs)>>,
                   crisp_foldl(<<f, Number(1), L(xs)>>, repl_env))

EvalNext == Eval \/ Map \/ Foldl

EvalSpec == EvalInit /\ [][EvalNext]_vars

\* ------------------------------------------------------------------------
\* send: tokenize, parse, evaluate the one expression parse returns
\* ------------------------------------------------------------------------
\* `input.chars()` of a text written as a string
CharOf(c) ==
    CASE c = " " -> Space
      [] c = "\\" -> Backslash
      [] OTHER -> c

Chars(str) == [i \in 1..Len(str) |-> CharOf(SubSeq(str, i, i))]

\* the String that a token's characters spell
RECURSIVE to_string(_)
to_string(token) ==
    IF token = <<>> THEN ""
    ELSE (IF token[1] = Backslash THEN "\\" ELSE token[1]) \o to_string(Tail(token))

\* the expression as the evaluator reads it: Symbol names are Strings
RECURSIVE Ast(_)
Ast(expr) ==
    CASE expr.t = "Symbol" -> Symbol(to_string(expr.v))
      [] expr.t = "List" -> List([i \in 1..Len(expr.v) |-> Ast(expr.v[i])])
      [] OTHER -> expr

\* a lone Symbol is evaluated like any other expression
resolve(ast, env) == eval(ast, env)

\* a send that goes on to the expression after the first one
send_two(text, env) ==
    LET toks == tokenize(Chars(text))
        p == parse(toks.tokens)
    IN IF toks.panic \/ p.kind = "Panic" THEN RPanic(env, <<>>)
       ELSE IF p.kind = "Err" THEN RErr(p.err, env, <<>>)
       ELSE LET r == eval(Ast(p.expr), env)
            IN IF r.kind # "Ok" \/ p.rest = <<>> \/ parse(p.rest).kind # "Ok" THEN r
               ELSE After(r.log, eval(Ast(parse(p.rest).expr), r.env))

send(text, env) ==
    LET toks == tokenize(Chars(text))
        p == parse(toks.tokens)
    IN IF toks.panic \/ p.kind = "Panic" THEN RPanic(env, <<>>)
       ELSE IF p.kind = "Err" THEN RErr(p.err, env, <<>>)
       ELSE IF p.expr.t = "Symbol" THEN resolve(Ast(p.expr), env)
       ELSE eval(Ast(p.expr), env)

SendTexts ==
    {"(let x 5)", "(+ x 1)", "(let x 5) (+ x 1)", "(let x 5)(let y 1)",
     "(let y 2) (exit 1)", "(+ x 1) (let x 1)", "(+ x y) (", "+ x y",
     "let y 1", "(if (> x 1) (let y 3) (let y 4))", "(fn f a (+ a 1)) (let x 2)",
     "(x)", "x", "7 (let x 1)", "(+ x 1", ")", "(exit 2)"}

Send ==
    /\ ~exited
    /\ \E text \in SendTexts : Outcome("send", text, send(text, repl_env))

SendSpec == EvalInit /\ [][Send]_vars

\* ------------------------------------------------------------------------
\* The boolean natives of functions/boolean.rs, called directly
\* ------------------------------------------------------------------------
\* `prev_value $op n` of fold_compare!, for the two operators on bool
BoolOp(name, a, b) ==
    CASE name = "&&" -> a /\ b
      [] name = "||" -> a \/ b

\* backend_foldl over args[1..]: `acc && prev_value $op n; prev_value = n`
RECURSIVE fold_compare_loop(_, _, _, _)
fold_compare_loop(name, acc, prev_value, rest) ==
    IF rest = <<>> THEN acc
    ELSE fold_compare_loop(name, acc /\ BoolOp(name, prev_value, rest[1].v),
                           rest[1].v, Tail(rest))

fold_compare(name, args, env) ==
    IF Len(args) < 2 THEN RErr(ArgumentError(2, -1), env, <<>>)
    ELSE IF \E i \in 1..Len(args) : args[i].t # "Bool"
    THEN RErr(TypeError("Bool"), env, <<>>)
    ELSE ROk(Bool(fold_compare_loop(name, TRUE, args[1].v, Tail(args))), env, <<>>)

crisp_and(args, env) == fold_compare("&&", args, env)
crisp_or(args, env) == fold_compare("||", args, env)

BoolArgs ==
    UNION {[1..n -> Bools \cup {Number(1)}] : n \in 0..MaxListLen}

And ==
    /\ ~exited
    /\ \E args \in BoolArgs : Outcome("&&", args, crisp_and(args, repl_env))

Or ==
    /\ ~exited
    /\ \E args \in BoolArgs : Outcome("||", args, crisp_or(args, repl_env))

\* f64 values: the integers, and the negative zero, which `==` takes for
\* equal to zero while its bit pattern differs
NegZero == [t |-> "Number", v |-> 0, neg |-> TRUE]

\* `n.to_bits()`: one pattern per value, the two zeros apart
to_bits(n) == IF "neg" \in DOMAIN n THEN <<"-", 0>> ELSE <<"+", n.v>>

\* impl PartialEq for CrispExpr
RECURSIVE eq(_, _)
eq(a, b) ==
    CASE a.t = "Symbol" /\ b.t = "Symbol" -> a.v = b.v
      [] a.t = "CrispString" /\ b.t = "CrispString" -> a.v = b.v
      [] a.t = "Number" /\ b.t = "Number" -> a.v = b.v
      [] a.t = "List" /\ b.t = "List" ->
            /\ Len(a.v) = Len(b.v)
            /\ \A i \in 1..Len(a.v) : eq(a.v[i], b.v[i])
      [] a.t = "Bool" /\ b.t = "Bool" -> a.v = b.v
      [] OTHER -> FALSE

\* impl Hash for CrispExpr: what the value writes into the hasher
RECURSIVE hash(_)
hash(expr) ==
    CASE expr.t \in {"Symbol", "CrispString"} -> <<"str", expr.v>>
      [] expr.t = "Number" -> <<"u64", to_bits(expr)>>
      [] expr.t = "Bool" -> <<"u8", expr.v>>
      [] expr.t = "List" -> <<"vec", [i \in 1..Len(expr.v) |-> hash(expr.v[i])]>>
      [] OTHER -> <<>>

\* `args.iter().collect::<HashSet<_>>()`: a value is dropped when the probe
\* meets a stored value that `eq` takes for equal; the probe compares the
\* values of equal hash and, when the tags of two different hashes happen
\* to collide under the set's random keys, those as well
RECURSIVE uniq_values(_, _, _)
uniq_values(args, set, tags_collide) ==
    IF args = <<>> THEN set
    ELSE uniq_values(Tail(args),
                     IF \E i \in 1..Len(set) :
                            /\ hash(set[i]) = hash(args[1]) \/ tags_collide
                            /\ eq(set[i], args[1])
                     THEN set ELSE Append(set, args[1]),
                     tags_collide)

crisp_eq(args, env, tags_collide) ==
    IF Len(args) < 2 THEN RErr(ArgumentError(2, -1), env, <<>>)
    ELSE ROk(Bool(Len(uniq_values(args, <<>>, tags_collide)) = 1), env, <<>>)

crisp_not_eq(args, env, tags_collide) ==
    IF Len(args) < 2 THEN RErr(ArgumentError(2, -1), env, <<>>)
    ELSE ROk(Bool(Len(args) = Len(uniq_values(args, <<>>, tags_collide))), env, <<>>)

EqValues == {Number(0), NegZero, Number(1), Func("+"), Lambda(L(<<S("a")>>), S("a"))}
EqArgs == UNION {[1..n -> EqValues] : n \in 0..MaxListLen}

Eq ==
    /\ ~exited
    /\ \E args \in EqArgs, tags_collide \in BOOLEAN :
           Outcome("=", args, crisp_eq(args, repl_env, tags_collide))

NotEq ==
    /\ ~exited
    /\ \E args \in EqArgs, tags_collide \in BOOLEAN :
           Outcome("!=", args, crisp_not_eq(args, repl_env, tags_collide))

NativeNext == And \/ Or \/ Eq \/ NotEq

NativeSpec == EvalInit /\ [][NativeNext]_vars

\* ------------------------------------------------------------------------
\* Display: the text of a value
\* ------------------------------------------------------------------------
\* snailquote's escape: a string with no character that needs quoting is
\* returned as it is; one with such characters goes into single quotes,
\* unless it holds a quote, a backslash or a control character, and then
\* into double quotes with escapes
NeedsQuoting(c) ==
    c \in {SQuote, Backslash, DQuote, Space, LParen, RParen, Semi, Newline, Tab}

SingleQuotable(str) ==
    \A i \in 1..Len(str) : str[i] \notin {SQuote, Backslash, Newline, Tab}

RECURSIVE EscapedChars(_)
EscapedChars(str) ==
    IF str = <<>> THEN <<>>
    ELSE (CASE str[1] = DQuote -> <<Backslash, DQuote>>
            [] str[1] = Backslash -> <<Backslash, Backslash>>
            [] str[1] = Newline -> <<Backslash, "n">>
            [] str[1] = Tab -> <<Backslash, "t">>
            [] OTHER -> <<str[1]>>)
         \o EscapedChars(Tail(str))

escape(str) ==
    IF \A i \in 1..Len(str) : ~NeedsQuoting(str[i]) THEN str
    ELSE IF SingleQuotable(str) THEN <<SQuote>> \o str \o <<SQuote>>
    ELSE <<DQuote>> \o EscapedChars(str) \o <<DQuote>>

escape_string(str) ==
    IF escape(str) = str THEN <<SQuote>> \o str \o <<SQuote>> ELSE escape(str)

\* `n.to_string()` of a non-negative whole number
DigitChar(d) ==
    CASE d = 0 -> "0" [] d = 1 -> "1" [] d = 2 -> "2" [] d = 3 -> "3" [] d = 4 -> "4"
      [] d = 5 -> "5" [] d = 6 -> "6" [] d = 7 -> "7" [] d = 8 -> "8" [] d = 9 -> "9"

RECURSIVE number_to_string(_)
number_to_string(n) ==
    IF n < 10 THEN <<DigitChar(n)>>
    ELSE Append(number_to_string(n \div 10), DigitChar(n % 10))

\* impl fmt::Display for CrispExpr, for the values it has an arm for
RECURSIVE fmt(_), join(_)
join(list) ==
    IF list = <<>> THEN <<>>
    ELSE (IF list[1].t = "CrispString" THEN escape_string(list[1].v) ELSE fmt(list[1]))
         \o (IF Len(list) > 1 THEN <<Space>> ELSE <<>>)
         \o join(Tail(list))

fmt(expr) ==
    CASE expr.t \in {"Symbol", "CrispString"} -> expr.v
      [] expr.t = "Number" -> number_to_string(expr.v)
      [] expr.t = "Bool" -> IF expr.v THEN <<"t", "r", "u", "e">>
                                     ELSE <<"f", "a", "l", "s", "e">>
      [] expr.t = "List" -> <<LParen>> \o join(expr.v) \o <<RParen>>
      [] expr.t = "Func" -> <<"<", "F", "u", "n", "c", ">">>
      [] expr.t = "Lambda" -> <<"<", "L", "a", "m", "b", "d", "a", ">">>

\* the text print_return writes after the indicator
print_return(ret) ==
    IF ret.t = "CrispString" THEN escape_string(ret.v) ELSE fmt(ret)

\* ------------------------------------------------------------------------
\* C1: for every input text, tokenize followed by parse ends with Ok or
\* a ParseError and never aborts the process.
\* ------------------------------------------------------------------------
C1_NeverAborts == phase # "aborted"

\* the shortest aborting input: the text is exactly one char marker
C1_AbortInput == input = <<Comma>> /\ phase = "aborted"

\* ------------------------------------------------------------------------
\* Shorthands for the last call
\* ------------------------------------------------------------------------
LastEvalForm(kw, n) ==
    /\ last.op = "eval"
    /\ last.arg.t = "List"
    /\ Len(last.arg.v) = n
    /\ last.arg.v[1] = S(kw)

LastMap == last.op = "map"
MapF == last.arg[1]
MapXs == last.arg[2].v
MapK == Len(MapF.args.v)
AllSymbols(list) == \A i \in 1..Len(list) : list[i].t = "Symbol"
ParamNames(f) == {f.args.v[i].v : i \in 1..Len(f.args.v)}
CountOf(log, entry) == Cardinality({i \in 1..Len(log) : log[i] = entry})

\* ------------------------------------------------------------------------
\* C2: evaluating a non-empty List whose evaluated head is neither a Native
\* nor a Closure returns, without error, the List of the evaluations of its
\* elements: (1 2 3) evaluates to itself, (1 2 (+ 1 2)) to (1 2 3).
\* ------------------------------------------------------------------------
C2_DataListCase ==
    /\ last.op = "eval"
    /\ last.arg.t = "List"
    /\ last.arg.v # <<>>
    /\ ~IsKeyword(last.arg.v[1])
    /\ eval(last.arg.v[1], last.before).kind = "Ok"
    /\ eval(last.arg.v[1], last.before).val.t \notin {"Func", "Lambda"}
    /\ eval_args(last.arg.v, last.before, <<>>, <<>>).kind = "Ok"

C2_ElementWise ==
    C2_DataListCase =>
        /\ last.kind = "Ok"
        /\ last.val = eval_args(last.arg.v, last.before, <<>>, <<>>).val

\* ------------------------------------------------------------------------
\* C3: evaluating the empty List returns the empty List itself, not an
\* error, in every environment.
\* ------------------------------------------------------------------------
C3_EmptyListSelf ==
    (last.op = "eval" /\ last.arg = L(<<>>)) =>
        (last.kind = "Ok" /\ last.val = L(<<>>))

\* ------------------------------------------------------------------------
\* C4: `if` evaluates its predicate once and then exactly the selected
\* branch; the untaken branch is not evaluated and none of its effects (a
\* binding, the end of the process) occur.
\* ------------------------------------------------------------------------
C4_IfCase ==
    /\ LastEvalForm("if", 4)
    /\ eval(last.arg.v[2], last.before).kind = "Ok"
    /\ eval(last.arg.v[2], last.before).val.t = "Bool"

C4_IfShortCircuit ==
    C4_IfCase =>
        LET p == eval(last.arg.v[2], last.before)
            taken == last.arg.v[IF p.val.v THEN 3 ELSE 4]
            b == eval(taken, p.env)
        IN /\ last.log = <<Evaluated(last.arg)>> \o p.log \o b.log
           /\ last.kind = b.kind
           /\ last.val = b.val
           /\ repl_env = b.env
           /\ exited = (b.kind = "Exit")

C4_Witness ==
    /\ last.op = "eval"
    /\ last.arg = L(<<S("if"), Bool(TRUE), Number(1), L(<<S("exit"), Number(1)>>)>>)
    /\ last.kind = "Ok"
    /\ last.val = Number(1)
    /\ ~exited

\* ------------------------------------------------------------------------
\* C5: a lambda literal evaluates neither its params nor its body: the
\* result is a Lambda holding the body verbatim, the environment is
\* unchanged and the process goes on, even when the body contains `exit`.
\* ------------------------------------------------------------------------
C5_LambdaCase ==
    /\ LastEvalForm("\\", 3)
    /\ last.arg.v[2].t \in {"Symbol", "List"}

C5_LambdaLazy ==
    C5_LambdaCase =>
        /\ last.kind = "Ok"
        /\ last.val.t = "Lambda"
        /\ last.val.func = last.arg.v[3]
        /\ last.log = <<Evaluated(last.arg)>>
        /\ repl_env = last.before
        /\ ~exited

C5_Witness ==
    /\ last.op = "eval"
    /\ last.arg = L(<<S("\\"), L(<<S("a")>>), L(<<S("exit"), Number(1)>>)>>)
    /\ last.kind = "Ok"
    /\ last.val = Lambda(L(<<S("a")>>), L(<<S("exit"), Number(1)>>))
    /\ ~exited

\* ------------------------------------------------------------------------
\* C6 (as claimed): every Lambda that `\` or `fn` constructs has params that
\* is a List of Symbols only; a List with a non-Symbol element is rejected
\* at construction.
\* ------------------------------------------------------------------------
C6_Constructed ==
    /\ last.op = "eval"
    /\ last.arg.t = "List"
    /\ \/ Len(last.arg.v) = 3 /\ last.arg.v[1] = S("\\")
       \/ Len(last.arg.v) = 4 /\ last.arg.v[1] = S("fn") /\ last.arg.v[2].t = "Symbol"

C6_ParamsAllSymbols ==
    (C6_Constructed /\ last.kind = "Ok") =>
        /\ last.val.args.t = "List"
        /\ AllSymbols(last.val.args.v)

\* C6 (amended): the params of a constructed Lambda is always a List: a bare
\* Symbol becomes a one-element List, a List is kept as written whatever its
\* elements are, and a params argument that is neither is a TypeError at
\* construction.
C6_ParamsIsList ==
    C6_Constructed =>
        LET ps == last.arg.v[Len(last.arg.v) - 1]
        IN CASE ps.t = "Symbol" ->
                    last.kind = "Ok" /\ last.val.args = L(<<ps>>)
             [] ps.t = "List" ->
                    last.kind = "Ok" /\ last.val.args = ps
             [] OTHER ->
                    last.kind = "Err" /\ last.val = TypeError("Symbol || List<Symbol>")

C6_Witness ==
    /\ C6_Constructed
    /\ last.arg.v[1] = S("\\")
    /\ last.arg.v[2] = L(<<Number(3), S("b")>>)
    /\ last.kind = "Ok"
    /\ last.val.args = L(<<Number(3), S("b")>>)

\* ------------------------------------------------------------------------
\* C7: a Lambda invoked with a number of arguments different from its
\* number of parameters returns an ArgumentError and its body is not
\* evaluated; with matching counts parameter i is bound to argument i.
\* ------------------------------------------------------------------------
C7_Case ==
    /\ LastMap
    /\ MapK >= 1
    /\ AllSymbols(MapF.args.v)

C9_FreeSymbolBody(f) ==
    /\ f.func.t = "Symbol"
    /\ AllSymbols(f.args.v)
    /\ f.func.v \notin ParamNames(f)

C11_KeywordCase ==
    /\ last.op = "eval"
    /\ last.arg.t = "List"
    /\ last.arg.v # <<>>
    /\ IsKeyword(last.arg.v[1])

RECURSIVE Binders(_)
BindersOfAll(list) == UNION {Binders(list[i]) : i \in 1..Len(list)}
Binders(expr) ==
    IF expr.t # "List" THEN {}
    ELSE BindersOfAll(expr.v)
         \cup (IF /\ Len(expr.v) >= 2
                  /\ expr.v[1] \in {S("let"), S("fn")}
                  /\ expr.v[2].t = "Symbol"
               THEN {expr.v[2].v} ELSE {})

\* ------------------------------------------------------------------------
\* C12: a successful (let name expr) evaluates expr once, binds name to the
\* result v in the current scope, overwriting an earlier binding, and
\* returns v; the Symbol name then evaluates to v, and a binding changes
\* only in a step that evaluates a let or fn of that name.
\* ------------------------------------------------------------------------
C12_LetStep ==
    /\ (LastEvalForm("let", 3) /\ last.kind = "Ok")' =>
          LET name == last'.arg.v[2].v
              v == eval(last'.arg.v[3], repl_env)
          IN /\ last'.val = v.val
             /\ last'.log = <<Evaluated(last'.arg)>> \o v.log
             /\ repl_env' = [v.env EXCEPT ![Len(v.env)] =
                                 (name :> v.val) @@ v.env[Len(v.env)]]
             /\ Current(repl_env')[name] = v.val
             /\ eval(S(name), repl_env').kind = "Ok"
             /\ eval(S(name), repl_env').val = v.val
    /\ \A n \in DOMAIN Current(repl_env) :
          /\ n \in DOMAIN Current(repl_env')
          /\ (Current(repl_env')[n] # Current(repl_env)[n]) =>
                (last'.op = "eval" /\ n \in Binders(last'.arg))

C12_LetBinds == [][C12_LetStep]_vars

C12_Witness ==
    /\ LastEvalForm("let", 3)
    /\ last.arg.v[2] = S("x")
    /\ last.arg.v[3] = Number(2)
    /\ get("x", last.before).found
    /\ get("x", last.before).v = Number(1)
    /\ last.kind = "Ok"
    /\ last.val = Number(2)
    /\ Current(repl_env)["x"] = Number(2)

\* ------------------------------------------------------------------------
\* C13: (fn name params body) is equivalent to (let name (\ params body)):
\* when both succeed from the same environment they return the same Lambda
\* (normalized params, same body) and leave the same environment, with name
\* bound to that Lambda in the current scope.
\* ------------------------------------------------------------------------
C13_AsLet(form) ==
    L(<<S("let"), form.v[2], L(<<S("\\"), form.v[3], form.v[4]>>)>>)

C13_FnIsLetLambda ==
    LastEvalForm("fn", 4) =>
        LET l == eval(C13_AsLet(last.arg), last.before)
        IN (last.kind = "Ok" /\ l.kind = "Ok") =>
              /\ last.val = l.val
              /\ repl_env = l.env
              /\ last.val.t = "Lambda"
              /\ last.val.args.t = "List"
              /\ last.val.func = last.arg.v[4]
              /\ Current(repl_env)[last.arg.v[2].v] = last.val

C13_Witness ==
    /\ LastEvalForm("fn", 4)
    /\ last.arg.v[2] = S("f")
    /\ last.arg.v[3] = S("a")
    /\ last.kind = "Ok"
    /\ eval(C13_AsLet(last.arg), last.before).kind = "Ok"
    /\ last.val = Lambda(L(<<S("a")>>), last.arg.v[4])
    /\ Current(repl_env)["f"] = last.val

\* ------------------------------------------------------------------------
\* C14: exit with one argument ends the process with the numeric value of
\* the argument, for a Number literal and for a symbol or expression that
\* evaluates to a Number; the code is 0 only when the argument is omitted;
\* no value or error is returned.
\* ------------------------------------------------------------------------
C14_ExitCode ==
    /\ LastEvalForm("exit", 1) => (last.kind = "Exit" /\ last.val = Number(0))
    /\ LastEvalForm("exit", 2) =>
          LET a == eval(last.arg.v[2], last.before)
          IN (a.kind = "Ok" /\ a.val.t = "Number") =>
                (last.kind = "Exit" /\ last.val = a.val /\ exited)

\* ------------------------------------------------------------------------
\* C15: for every special form a wrong number of arguments returns an
\* ArgumentError naming the expected count and an argument of the wrong
\* type (non-Bool if predicate, non-Symbol let/fn name, non-Symbol/List
\* lambda params, non-numeric exit code) returns a TypeError naming the
\* expected type; the process does not end in either case.
\* ------------------------------------------------------------------------
C15_Tail == Tail(last.arg.v)
C15_IsErr(e) == last.kind = "Err" /\ last.val = e /\ ~exited
C15_Head(kw) == C11_KeywordCase /\ last.arg.v[1] = S(kw)

C15_FormErrors ==
    /\ (C15_Head("if") /\ Len(C15_Tail) # 3) => C15_IsErr(ArgumentError(3, 3))
    /\ (C15_Head("let") /\ Len(C15_Tail) # 2) => C15_IsErr(ArgumentError(2, 2))
    /\ (C15_Head("\\") /\ Len(C15_Tail) # 2) => C15_IsErr(ArgumentError(2, 2))
    /\ (C15_Head("fn") /\ Len(C15_Tail) # 3) => C15_IsErr(ArgumentError(3, 3))
    /\ (C15_Head("exit") /\ Len(C15_Tail) > 1) => C15_IsErr(ArgumentError(0, 1))
    /\ (C15_Head("if") /\ Len(C15_Tail) = 3
           /\ eval(C15_Tail[1], last.before).kind = "Ok"
           /\ eval(C15_Tail[1], last.before).val.t # "Bool") =>
          C15_IsErr(TypeError("Bool"))
    /\ (C15_Head("let") /\ Len(C15_Tail) = 2 /\ C15_Tail[1].t # "Symbol") =>
          C15_IsErr(TypeError("Symbol"))
    /\ (C15_Head("fn") /\ Len(C15_Tail) = 3 /\ C15_Tail[1].t # "Symbol") =>
          C15_IsErr(TypeError("Symbol"))
    /\ (C15_Head("fn") /\ Len(C15_Tail) = 3 /\ C15_Tail[1].t = "Symbol"
           /\ C15_Tail[2].t \notin {"Symbol", "List"}) =>
          C15_IsErr(TypeError("Symbol || List<Symbol>"))
    /\ (C15_Head("\\") /\ Len(C15_Tail) = 2
           /\ C15_Tail[1].t \notin {"Symbol", "List"}) =>
          C15_IsErr(TypeError("Symbol || List<Symbol>"))
    /\ (C15_Head("exit") /\ Len(C15_Tail) = 1 /\ C15_Tail[1].t = "Bool") =>
          (last.kind = "Err" /\ last.val.t = "TypeError" /\ ~exited)

\* ------------------------------------------------------------------------
\* Shorthands for the steps of the reader
\* ------------------------------------------------------------------------
ScanStepTaken(st) == phase = "scan" /\ state = st /\ pos' = pos + 1
NextChar == input[pos + 1]
Scanned == Flushed(tokens, current_token)
WithOuterParens(toks) == <<(<<LParen>>)>> \o toks \o <<(<<RParen>>)>>
Quotes == {DQuote, SQuote}

\* ------------------------------------------------------------------------
\* C16 (as claimed): when the scanned token sequence does not begin with
\* `(`, tokenize returns it wrapped with a leading `(` and a trailing `)`;
\* a sequence that begins with `(` is returned unchanged.
\* ------------------------------------------------------------------------
C16_WrapStep ==
    (phase = "scan" /\ phase' = "tokenized") =>
        tokens' = IF Scanned # <<>> /\ Scanned[1] = <<LParen>>
                  THEN Scanned
                  ELSE WithOuterParens(Scanned)

C16_WrappedUnlessParen == [][C16_WrapStep]_vars

\* C16 (amended): a scanned sequence of two or more tokens that does not
\* begin with `(` is returned wrapped with a leading `(` and a trailing `)`;
\* a sequence that begins with `(`, a single token and the empty sequence
\* are returned unchanged.
C16_WrapManyStep ==
    (phase = "scan" /\ phase' = "tokenized") =>
        tokens' = IF Len(Scanned) > 1 /\ Scanned[1] # <<LParen>>
                  THEN WithOuterParens(Scanned)
                  ELSE Scanned

C16_WrappedWhenMany == [][C16_WrapManyStep]_vars

C16_Witness ==
    /\ phase = "tokenized"
    /\ input = <<"a", "1">>
    /\ tokens = << <<"a", "1">> >>

\* ------------------------------------------------------------------------
\* C17: a string literal is closed only by an unescaped delimiter matching
\* the one that opened it; the other quote character is content, and so is
\* a delimiter right after a backslash.  The token keeps its quotes and
\* escapes, and parentheses, whitespace and `;` do not split it.
\* ------------------------------------------------------------------------
Opener(cur) ==
    cur[CHOOSE i \in 1..Len(cur) :
            cur[i] \in Quotes /\ \A j \in 1..(i - 1) : cur[j] \notin Quotes]

C17_StringStep ==
    ScanStepTaken("String") =>
        IF NextChar = Opener(current_token) /\ Last(current_token) # Backslash
        THEN /\ tokens' = Append(tokens, Append(current_token, NextChar))
             /\ current_token' = <<>>
             /\ state' = "Scanning"
        ELSE /\ tokens' = tokens
             /\ current_token' = Append(current_token, NextChar)
             /\ state' = "String"

C17_MatchingDelimiter == [][C17_StringStep]_vars

\* ------------------------------------------------------------------------
\* C18: when the tokenizer meets the char marker `,` while scanning, it
\* emits one token of exactly two characters, the marker and the character
\* that follows it, whatever characters precede the marker.
\* ------------------------------------------------------------------------
C18_CharStep ==
    ScanStepTaken("Char") =>
        /\ tokens' = Append(tokens, <<Comma, NextChar>>)
        /\ current_token' = <<>>
        /\ state' = "Scanning"

C18_TwoCharToken == [][C18_CharStep]_vars

\* ------------------------------------------------------------------------
\* C19: a `;` met while scanning ends the token in progress and starts a
\* comment; no character from the `;` through the next newline or the end
\* of input contributes to a token, and scanning resumes after the newline.
\* A `;` inside a string literal or right after a char marker does not
\* start a comment.
\* ------------------------------------------------------------------------
C19_CommentStep ==
    /\ (ScanStepTaken("Scanning") /\ NextChar = Semi) =>
          /\ tokens' = Flushed(tokens, current_token)
          /\ current_token' = <<>>
          /\ state' = "Comment"
    /\ ScanStepTaken("Comment") =>
          /\ current_token = <<>>
          /\ tokens' = tokens
          /\ current_token' = <<>>
          /\ state' = IF NextChar = Newline THEN "Scanning" ELSE "Comment"
    /\ (ScanStepTaken("String") /\ NextChar = Semi) =>
          /\ state' = "String"
          /\ tokens' = tokens
          /\ current_token' = Append(current_token, Semi)
    /\ (ScanStepTaken("Char") /\ NextChar = Semi) =>
          /\ state' = "Scanning"
          /\ tokens' = Append(tokens, Append(current_token, Semi))
    /\ (phase = "scan" /\ phase' = "tokenized" /\ state = "Comment") =>
          tokens' = Wrapped(tokens)

C19_Comments == [][C19_CommentStep]_vars

C19_Witness ==
    /\ phase = "tokenized"
    /\ input = <<Semi, "1", Newline, "a">>
    /\ tokens = << <<"a">> >>

\* ------------------------------------------------------------------------
\* C20: when parse succeeds on a token sequence that begins with `(`, it
\* returns the List of the values parsed between that `(` and its matching
\* `)`, in order, and as remainder exactly the tokens after the matching
\* `)`: the consumed tokens followed by the remainder are the input.
\* ------------------------------------------------------------------------
RECURSIVE Depth(_, _), ParseAll(_)
\* the number of `(` minus the number of `)` among the first i tokens
Depth(toks, i) ==
    IF i = 0 THEN 0
    ELSE Depth(toks, i - 1)
         + (CASE toks[i] = <<LParen>> -> 1 [] toks[i] = <<RParen>> -> -1 [] OTHER -> 0)

IsMatchingClose(toks, m) ==
    /\ Depth(toks, m) = 0
    /\ \A i \in 1..(m - 1) : Depth(toks, i) > 0

\* the values of the expressions written one after the other in toks
ParseAll(toks) ==
    IF toks = <<>> THEN <<>>
    ELSE LET r == parse(toks)
         IN IF r.kind = "Ok" THEN <<r.expr>> \o ParseAll(r.rest) ELSE <<r>>

C20_ListCase ==
    /\ phase = "parsed"
    /\ parsed.kind = "Ok"
    /\ tokens # <<>>
    /\ tokens[1] = <<LParen>>

C20_ListAndRemainder ==
    C20_ListCase =>
        \E m \in 2..Len(tokens) :
            /\ IsMatchingClose(tokens, m)
            /\ parsed.expr = List(ParseAll(SubSeq(tokens, 2, m - 1)))
            /\ parsed.rest = SubSeq(tokens, m + 1, Len(tokens))
            /\ SubSeq(tokens, 1, m) \o parsed.rest = tokens

C20_Witness ==
    /\ C20_ListCase
    /\ tokens = << <<LParen>>, <<"a">>, <<RParen>>, <<RParen>> >>
    /\ parsed.expr = List(<<Symbol(<<"a">>)>>)
    /\ parsed.rest = << <<RParen>> >>

\* ------------------------------------------------------------------------
\* C21: for token sequences made of parentheses and valid atoms, parse
\* returns a ParseError exactly when the first token is `)` or the first
\* `(` has no matching `)`; the empty sequence parses to Nil with an empty
\* remainder.
\* ------------------------------------------------------------------------
IsParen(token) == token \in {<<LParen>>, <<RParen>>}
ValidAtom(token) == ~IsParen(token) /\ parse_atom(token).kind = "Ok"

C21_Case ==
    /\ phase = "parsed"
    /\ \A i \in 1..Len(tokens) : IsParen(tokens[i]) \/ ValidAtom(tokens[i])

C21_Unbalanced ==
    /\ tokens # <<>>
    /\ \/ tokens[1] = <<RParen>>
       \/ /\ tokens[1] = <<LParen>>
          /\ ~\E m \in 2..Len(tokens) : IsMatchingClose(tokens, m)

C21_ParseErrors ==
    C21_Case =>
        /\ (parsed.kind = "Err") <=> C21_Unbalanced
        /\ (parsed.kind = "Err") => parsed.err.e = "ParseError"
        /\ (tokens = <<>>) => parsed = Ok(Nil, <<>>)

C21_Witness ==
    /\ C21_Case
    /\ tokens = << <<LParen>>, <<LParen>>, <<RParen>> >>
    /\ parsed.kind = "Err"
    /\ parsed.err.e = "ParseError"

\* ------------------------------------------------------------------------
\* C22: one send parses and evaluates exactly one top-level expression:
\* tokens after the first complete expression are not evaluated and change
\* neither the result nor the environment; sends that share an environment
\* see each other's bindings: (let x 5), then (+ x 1) returns 6.
\* ------------------------------------------------------------------------
SentTokens == tokenize(Chars(last.arg)).tokens
SentParse == parse(SentTokens)
\* the tokens of the first expression, without what follows it
FirstExprTokens == SubSeq(SentTokens, 1, Len(SentTokens) - Len(SentParse.rest))

C22_Case ==
    /\ last.op = "send"
    /\ SentParse.kind = "Ok"

C22_OneExpression ==
    C22_Case =>
        LET first == parse(FirstExprTokens)
            r == eval(Ast(first.expr), last.before)
        IN /\ first.kind = "Ok"
           /\ first.rest = <<>>
           /\ last.kind = r.kind
           /\ last.val = r.val
           /\ last.log = r.log
           /\ repl_env = r.env
           /\ (last.arg = "(+ x 1)" /\ get("x", last.before).found
                  /\ get("x", last.before).v.t = "Number") =>
                 (last.kind = "Ok"
                    /\ last.val = Number(get("x", last.before).v.v + 1))

C22_Witness ==
    /\ C22_Case
    /\ last.arg = "(let x 5) (+ x 1)"
    /\ SentParse.rest # <<>>
    /\ ~get("x", last.before).found
    /\ last.kind = "Ok"
    /\ last.val = Number(5)
    /\ Current(repl_env)["x"] = Number(5)

\* ------------------------------------------------------------------------
\* C23: in a call whose head evaluates to a Native, the head is evaluated
\* first, then the tail elements left to right, then the native is invoked
\* once with the evaluated arguments.  When an argument returns an error,
\* no later argument is evaluated, the native is not invoked and that error
\* is returned unchanged.
\* ------------------------------------------------------------------------
\* the arguments one after the other, each in the environment the one
\* before it left, up to the first that does not return a value
RECURSIVE C23_LeftToRight(_, _, _, _)
C23_LeftToRight(args, env, log, vals) ==
    IF args = <<>> THEN [kind |-> "Ok", vals |-> vals, env |-> env, log |-> log]
    ELSE LET a == eval(args[1], env)
         IN IF a.kind # "Ok"
            THEN [kind |-> a.kind, val |-> a.val, env |-> a.env, log |-> log \o a.log]
            ELSE C23_LeftToRight(Tail(args), a.env, log \o a.log, Append(vals, a.val))

C23_Case ==
    /\ last.op = "eval"
    /\ last.arg.t = "List"
    /\ last.arg.v # <<>>
    /\ ~IsKeyword(last.arg.v[1])
    /\ eval(last.arg.v[1], last.before).kind = "Ok"
    /\ eval(last.arg.v[1], last.before).val.t = "Func"

C23_NativeCallOrder ==
    C23_Case =>
        LET h == eval(last.arg.v[1], last.before)
            t == C23_LeftToRight(Tail(last.arg.v), h.env, <<>>, <<>>)
        IN IF t.kind = "Ok"
           THEN LET r == call_native(h.val.v, t.vals, t.env)
                IN /\ last.log = <<Evaluated(last.arg)>> \o h.log \o t.log
                                    \o <<Called(h.val)>>
                   /\ last.kind = r.kind
                   /\ last.val = r.val
                   /\ repl_env = t.env
           ELSE /\ last.log = <<Evaluated(last.arg)>> \o h.log \o t.log
                /\ CountOf(last.log, Called(h.val)) = 0
                /\ last.kind = t.kind
                /\ last.val = t.val
                /\ repl_env = t.env

C23_Witness ==
    /\ C23_Case
    /\ last.arg = L(<<S("+"), S("y"), L(<<S("let"), S("x"), Number(2)>>)>>)
    /\ ~get("y", last.before).found
    /\ last.kind = "Err"
    /\ last.val = Reason("Unexpected symbol")
    /\ repl_env = last.before
    /\ CountOf(last.log, Evaluated(L(<<S("let"), S("x"), Number(2)>>))) = 0

\* ------------------------------------------------------------------------
\* C24: every native checks its argument count before it looks at the
\* types of its arguments: map takes exactly 2 and foldl exactly 3, with
\* ArgumentError(n, n) for n-1 and n+1 arguments, and the fold operators
\* + - * return an ArgumentError for fewer than 2 arguments, so (+ 1) is an
\* ArgumentError.
\* ------------------------------------------------------------------------
C24_FoldCase ==
    /\ C23_Case
    /\ eval(last.arg.v[1], last.before).val.v \in {"+", "-", "*"}
    /\ Len(last.arg.v) < 3
    /\ C23_LeftToRight(Tail(last.arg.v), last.before, <<>>, <<>>).kind = "Ok"

C24_CountBeforeTypes ==
    /\ \A a \in {Number(1), L(<<>>)} :
          /\ crisp_map(<<a>>, repl_env).val = ArgumentError(2, 2)
          /\ crisp_map(<<a, a, a>>, repl_env).val = ArgumentError(2, 2)
          /\ crisp_foldl(<<a, a>>, repl_env).val = ArgumentError(3, 3)
          /\ crisp_foldl(<<a, a, a, a>>, repl_env).val = ArgumentError(3, 3)
    /\ C24_FoldCase => (last.kind = "Err" /\ last.val.e = "ArgumentError")

\* ------------------------------------------------------------------------
\* C25: || is the logical OR of all its arguments: for every list of two or
\* more Bools it returns true if and only if at least one argument is true,
\* wherever the true arguments are: (|| true false false) is true.
\* ------------------------------------------------------------------------
AllBools(args) == \A i \in 1..Len(args) : args[i].t = "Bool"

IsCallable(v) == v.t \in {"Func", "Lambda"}
IsData(v) == v.t \in {"Number", "Bool", "CrispString", "Symbol"}

C27_Case(op) == last.op = op /\ Len(last.arg) >= 2

C27_Equality ==
    /\ \A v \in EqValues : IsCallable(v) => ~eq(v, v)
    /\ \A op \in {"=", "!="} :
          (C27_Case(op) /\ \A i \in 1..Len(last.arg) : IsCallable(last.arg[i])) =>
              (last.kind = "Ok" /\ last.val = Bool(op = "!="))
    /\ (C27_Case("=") /\ \A i \in 1..Len(last.arg) : IsData(last.arg[i])) =>
          /\ last.kind = "Ok"
          /\ last.val = Bool(\A i, j \in 1..Len(last.arg) : eq(last.arg[i], last.arg[j]))
    /\ (C27_Case("!=") /\ \A i \in 1..Len(last.arg) : IsData(last.arg[i])) =>
          /\ last.kind = "Ok"
          /\ last.val = Bool(\A i, j \in 1..Len(last.arg) :
                                 i # j => ~eq(last.arg[i], last.arg[j]))

\* the same, for numbers other than the negative zero
C27_NoNegZero ==
    (last.op \in {"=", "!="} /\ \E i \in 1..Len(last.arg) : last.arg[i] = NegZero)
    \/ C27_Equality

\* ------------------------------------------------------------------------
\* C26: for every Lambda of k >= 0 parameters and every List of n >= 0
\* elements, map returns the List of the results of the Lambda on the
\* consecutive chunks of k elements, or a typed error; it never aborts the
\* process, also when k = 0 or when n is not a multiple of k.
\* ------------------------------------------------------------------------
C26_MapNeverAborts ==
    LastMap =>
        /\ last.kind # "Panic"
        /\ (last.kind = "Ok") =>
              /\ last.val.t = "List"
              /\ MapK > 0
              /\ Len(last.val.v) * MapK = Len(MapXs)
        /\ (last.kind = "Err") =>
              last.val.e \in {"ArgumentError", "TypeError", "StandardError", "Reason"}

\* ------------------------------------------------------------------------
\* C28: round trip: for every value v that the parser produces from a
\* well-formed literal (Number, Str, or a List of these), the text of v
\* under the display rules tokenizes and parses to v again.
\* ------------------------------------------------------------------------
RECURSIVE IsLiteralValue(_)
IsLiteralValue(v) ==
    \/ v.t \in {"Number", "CrispString", "Bool"}
    \/ /\ v.t = "List"
       /\ \A i \in 1..Len(v.v) : IsLiteralValue(v.v[i])

\* a literal whose quotes are closed: the string token ends with the
\* delimiter it begins with, and that delimiter is not escaped
ClosedQuotes(toks) ==
    \A i \in 1..Len(toks) :
        toks[i][1] \in Quotes =>
            /\ Len(toks[i]) >= 2
            /\ Last(toks[i]) = toks[i][1]
            /\ toks[i][Len(toks[i]) - 1] # Backslash

C28_Case ==
    /\ phase = "parsed"
    /\ parsed.kind = "Ok"
    /\ parsed.rest = <<>>
    /\ ClosedQuotes(tokens)
    /\ IsLiteralValue(parsed.expr)

C28_RoundTrip ==
    C28_Case =>
        LET text == print_return(parsed.expr)
            again == tokenize(text)
        IN /\ ~again.panic
           /\ parse(again.tokens) = Ok(parsed.expr, <<>>)

\* ------------------------------------------------------------------------
\* C29: a let or fn that fails binds nothing itself: with a wrong argument
\* count or a name that is not a Symbol, the value expression is not
\* evaluated and the environment is unchanged; a fn whose lambda cannot be
\* constructed also leaves the environment unchanged; a let whose value
\* expression returns an error returns that error and leaves the
\* environment that the evaluation of the value expression left, so the
\* binding of name is as before unless a let or fn inside the value
\* expression bound it.
\* ------------------------------------------------------------------------
C29_Failed ==
    /\ last.op = "eval"
    /\ last.arg.t = "List"
    /\ last.arg.v # <<>>
    /\ last.arg.v[1] \in {S("let"), S("fn")}
    /\ last.kind = "Err"

C29_Args == Tail(last.arg.v)
C29_IsLet == last.arg.v[1] = S("let")
C29_BadForm ==
    \/ Len(C29_Args) # (IF C29_IsLet THEN 2 ELSE 3)
    \/ C29_Args[1].t # "Symbol"

C29_NothingEvaluated ==
    /\ last.log = <<Evaluated(last.arg)>>
    /\ repl_env = last.before

C29_ErrorReturned ==
    LET v == eval(C29_Args[2], last.before)
    IN /\ v.kind = "Err"
       /\ last.val = v.val
       /\ last.log = <<Evaluated(last.arg)>> \o v.log
       /\ repl_env = v.env

C29_SameBinding == get(C29_Args[1].v, repl_env) = get(C29_Args[1].v, last.before)

C29_FailedBindsNothing ==
    C29_Failed =>
        IF C29_BadForm \/ ~C29_IsLet THEN C29_NothingEvaluated
        ELSE /\ C29_ErrorReturned
             /\ (C29_Args[1].v \notin Binders(C29_Args[2])) => C29_SameBinding

\* the statement without the exception: after every failed let or fn the
\* binding of name is as it was
C29_BindingKept ==
    C29_Failed =>
        IF C29_BadForm \/ ~C29_IsLet THEN C29_NothingEvaluated
        ELSE C29_ErrorReturned /\ C29_SameBinding

C29_Witness ==
    /\ LastEvalForm("let", 3)
    /\ last.arg.v[2] = S("y")
    /\ last.arg.v[3] = S("z")
    /\ last.kind = "Err"
    /\ get("y", last.before).found
    /\ get("y", last.before).v = Number(1)
    /\ get("y", repl_env).v = Number(1)
    /\ repl_env = last.before

\* ------------------------------------------------------------------------
\* C30: at every step of the scan the token in progress is non-empty when
\* the state is String or Char and empty when the state is Comment; no
\* token collected or returned by tokenize is the empty string, so the
\* `unwrap` on the last character in the String state never fails, and
\* neither does the one on the first character in parse_atom: the parser
\* aborts only on a lone char marker, whose second character is missing.
\* ------------------------------------------------------------------------
C30_TokenizerInvariant ==
    /\ state \in {"Scanning", "Char", "Comment", "String"}
    /\ state \in {"String", "Char"} => current_token # <<>>
    /\ state = "Comment" => current_token = <<>>
    /\ \A i \in 1..Len(tokens) : tokens[i] # <<>>
    /\ \A i \in 1..Len(Scanned) : Scanned[i] # <<>>
    /\ phase = "aborted" =>
          /\ parse(tokens).kind = "Panic"
          /\ \E i \in 1..Len(tokens) : tokens[i] = <<Comma>>

C30_Witness ==
    /\ phase = "scan"
    /\ state = "Comment"
    /\ pos = 2
    /\ input[1] = "a"
    /\ input[2] = Semi
    /\ tokens = << <<"a">> >>
    /\ current_token = <<>>

====
